---- MODULE Spec2Model ----
(***************************************************************************)
(* SSA generation (ssa_refactor/ssa_gen/mod.rs): the driver generate_ssa   *)
(* and the recursive translation FunctionContext::codegen_expression of a  *)
(* monomorphized expression tree into builder operations.                  *)
(*                                                                         *)
(* The translation is single-threaded and depth-first, so each codegen_*   *)
(* method is an operator from (expression, path, world) to (world, value): *)
(* the world is the builder and the shared context, threaded through the   *)
(* calls in the order the code makes them.  Every builder operation is     *)
(* appended to the world's log with the block the cursor designated and    *)
(* the path of the sub-expression whose handler issued it.                 *)
(***************************************************************************)
EXTENDS Integers, Sequences, FiniteSets, TLC

\* program:    the monomorphized Program handed to generate_ssa
\* pc:         the driver's position in generate_ssa
\* world:      the builder (blocks, cursor, values, functions), the shared
\*             context (reserved ids, worklist) and the log of builder calls
VARIABLES program, pc, world

vars == <<program, pc, world>>

-----------------------------------------------------------------------------
(* Bounds of the checked inputs.                                           *)

\* integer literals are 1..MaxInt
MaxInt == 2
\* array literals hold 0..MaxElems elements
MaxElems == 2

-----------------------------------------------------------------------------
(* Tree<T>: a leaf of T or an ordered list of subtrees (value.rs).         *)

Leaf(x) == [v |-> <<x>>, kids |-> <<>>]
Branch(ks) == [v |-> <<>>, kids |-> ks]
IsLeaf(t) == Len(t.v) = 1
LeafOf(t) == t.v[1]

RECURSIVE Concat(_)
Concat(ss) == IF ss = <<>> THEN <<>> ELSE Head(ss) \o Concat(Tail(ss))

\* Tree::for_each / into_value_list: the leaves, depth-first, left to right
RECURSIVE flatten(_)
flatten(t) ==
    IF IsLeaf(t) THEN <<LeafOf(t)>>
    ELSE Concat([i \in 1..Len(t.kids) |-> flatten(t.kids[i])])

\* Tree::size_of_type: the number of leaves
size_of_type(t) == Len(flatten(t))

\* the tree of shape t whose leaves are xs[off+1], xs[off+2], ... in
\* depth-first order (what Tree::map / map_type build leaf by leaf)
RECURSIVE reshape(_, _, _)
reshape(t, xs, off) ==
    IF IsLeaf(t) THEN Leaf(xs[off + 1])
    ELSE Branch([i \in 1..Len(t.kids) |->
            reshape(t.kids[i], xs,
                    off + Len(Concat([j \in 1..(i-1) |-> flatten(t.kids[j])])))])

\* Value::Normal(id) and Value::eval
Normal(id) == [normal |-> id]
eval(value) == value.normal

-----------------------------------------------------------------------------
(* ast::Type and its conversion to Tree<Type> (context.rs).                *)

TField == [k |-> "Field", fields |-> <<>>]
TBool == [k |-> "Bool", fields |-> <<>>]
TU32 == [k |-> "Integer", fields |-> <<>>]
TUnit == [k |-> "Unit", fields |-> <<>>]
TArray == [k |-> "Array", fields |-> <<>>]
TString == [k |-> "String", fields |-> <<>>]
TTuple(fs) == [k |-> "Tuple", fields |-> fs]

convert_non_tuple_type(typ) ==
    CASE typ.k = "Field" -> "field"
      [] typ.k = "Bool" -> "u1"
      [] typ.k = "Integer" -> "u32"
      [] typ.k = "Array" -> "reference"
      [] typ.k = "String" -> "reference"
      [] OTHER -> "invalid"

\* tuples become branches, the unit type the empty tree, scalars one leaf
RECURSIVE convert_type(_)
convert_type(typ) ==
    CASE typ.k = "Tuple" ->
            Branch([i \in 1..Len(typ.fields) |-> convert_type(typ.fields[i])])
      [] typ.k = "Unit" -> Branch(<<>>)
      [] OTHER -> Leaf(convert_non_tuple_type(typ))

\* FunctionContext::unit_value: the empty tree
unit_value == Branch(<<>>)

-----------------------------------------------------------------------------
(* The SSA builder and the shared contexts: the operations the translation *)
(* consumes.  Value ids, block ids and function ids are handed out in      *)
(* order; a block keeps every terminator it was given, in order.           *)

panicked(w) == w.panic # ""

\* panic!, unreachable!, todo!: the pass aborts, nothing is issued afterwards
Panic(w, msg) == IF panicked(w) THEN w ELSE [w EXCEPT !.panic = msg]

Op(name, path, w) ==
    [op |-> name, path |-> path, fn |-> Len(w.built) - 1, blk |-> w.cursor,
     args |-> <<>>, tgt |-> <<>>, res |-> 0, typ |-> "", n |-> 0, bop |-> ""]

\* an instruction with a result: a fresh value id of type typ
Issue(w, rec, typ) ==
    IF panicked(w) THEN [w |-> w, v |-> 0]
    ELSE LET id == Len(w.values) + 1
         IN [w |-> [w EXCEPT !.values = Append(@, typ),
                             !.log = Append(@, [rec EXCEPT !.res = id, !.typ = typ])],
             v |-> id]

\* an operation without a result
Record(w, rec) == IF panicked(w) THEN w ELSE [w EXCEPT !.log = Append(@, rec)]

type_of_value(w, v) ==
    IF v \in 1..Len(w.values) THEN w.values[v] ELSE "invalid"

numeric_constant(w, path, n, typ) ==
    Issue(w, [Op("const", path, w) EXCEPT !.n = n], typ)

field_constant(w, path, n) == numeric_constant(w, path, n, "field")

insert_allocate(w, path, size) ==
    Issue(w, [Op("allocate", path, w) EXCEPT !.n = size], "reference")

insert_store(w, path, address, value) ==
    Record(w, [Op("store", path, w) EXCEPT !.args = <<address, value>>])

insert_load(w, path, address, offset, typ) ==
    Issue(w, [Op("load", path, w) EXCEPT !.args = <<address, offset>>], typ)

Comparisons == {"Eq", "Lt"}

insert_binary(w, path, lhs, bop, rhs) ==
    Issue(w, [Op("binary", path, w) EXCEPT !.args = <<lhs, rhs>>, !.bop = bop],
          IF bop \in Comparisons THEN "u1" ELSE type_of_value(w, lhs))

insert_not(w, path, value) ==
    Issue(w, [Op("not", path, w) EXCEPT !.args = <<value>>], type_of_value(w, value))

insert_cast(w, path, value, typ) ==
    Issue(w, [Op("cast", path, w) EXCEPT !.args = <<value>>], typ)

insert_constrain(w, path, value) ==
    Record(w, [Op("constrain", path, w) EXCEPT !.args = <<value>>])

NewBlock(w) == [fn |-> Len(w.built) - 1, params |-> <<>>, terms |-> <<>>]

\* create a block in the current function; the cursor does not move
insert_block(w, path) ==
    IF panicked(w) THEN [w |-> w, v |-> 0]
    ELSE LET id == Len(w.blocks) + 1
         IN [w |-> [w EXCEPT !.blocks = Append(@, NewBlock(w)),
                             !.log = Append(@, [Op("insert_block", path, w)
                                                  EXCEPT !.tgt = <<id>>])],
             v |-> id]

switch_to_block(w, path, block) ==
    IF panicked(w) THEN w
    ELSE [w EXCEPT !.cursor = block,
                   !.log = Append(@, [Op("switch", path, w) EXCEPT !.tgt = <<block>>])]

add_block_parameter(w, path, block, typ) ==
    IF panicked(w) THEN [w |-> w, v |-> 0]
    ELSE LET id == Len(w.values) + 1
         IN [w |-> [w EXCEPT !.values = Append(@, typ),
                             !.blocks[block].params = Append(@, id),
                             !.log = Append(@, [Op("add_param", path, w)
                                                  EXCEPT !.tgt = <<block>>, !.res = id,
                                                         !.typ = typ])],
             v |-> id]

\* both terminators act on the block the cursor designates
terminate_with_jmp(w, path, destination, arguments) ==
    IF panicked(w) THEN w
    ELSE [w EXCEPT !.blocks[w.cursor].terms =
                       Append(@, [k |-> "jmp", tgt |-> <<destination>>,
                                  args |-> arguments]),
                   !.log = Append(@, [Op("jmp", path, w)
                                        EXCEPT !.tgt = <<destination>>,
                                               !.args = arguments])]

terminate_with_jmpif(w, path, condition, then_destination, else_destination) ==
    IF panicked(w) THEN w
    ELSE [w EXCEPT !.blocks[w.cursor].terms =
                       Append(@, [k |-> "jmpif",
                                  tgt |-> <<then_destination, else_destination>>,
                                  args |-> <<condition>>]),
                   !.log = Append(@, [Op("jmpif", path, w)
                                        EXCEPT !.tgt = <<then_destination, else_destination>>,
                                               !.args = <<condition>>])]

\* FunctionContext::make_offset: address + offset, the address itself for 0
make_offset(w, path, address, offset) ==
    IF offset = 0 THEN [w |-> w, v |-> address]
    ELSE LET c == field_constant(w, path, offset)
         IN insert_binary(c.w, path, address, "Add", c.v)

-----------------------------------------------------------------------------
(* ast::Expression: kind, sub-expressions, and the fields the translation  *)
(* reads (the literal's value, the operator, the carried type).            *)

Expr(kind, args, typ, op, n, bytes) ==
    [kind |-> kind, args |-> args, typ |-> typ, op |-> op, n |-> n, bytes |-> bytes]

Integer(n, typ) == Expr("Integer", <<>>, typ, "", n, <<>>)
Bool(b) == Expr("Bool", <<>>, TBool, "", IF b THEN 1 ELSE 0, <<>>)
Str(bytes) == Expr("Str", <<>>, TString, "", 0, bytes)
Array(contents, element_type) == Expr("Array", contents, element_type, "", 0, <<>>)
Block(exprs) == Expr("Block", exprs, TUnit, "", 0, <<>>)
Unary(op, rhs) == Expr("Unary", <<rhs>>, TUnit, op, 0, <<>>)
Binary(lhs, op, rhs) == Expr("Binary", <<lhs, rhs>>, TUnit, op, 0, <<>>)
Index(collection, index, element_type) ==
    Expr("Index", <<collection, index>>, element_type, "", 0, <<>>)
Cast(lhs, typ) == Expr("Cast", <<lhs>>, typ, "", 0, <<>>)
If(condition, consequence, typ) == Expr("If", <<condition, consequence>>, typ, "", 0, <<>>)
IfElse(condition, consequence, alternative, typ) ==
    Expr("If", <<condition, consequence, alternative>>, typ, "", 0, <<>>)
Tuple(exprs) == Expr("Tuple", exprs, TUnit, "", 0, <<>>)
ExtractTupleField(tuple, index) == Expr("ExtractTupleField", <<tuple>>, TUnit, "", index, <<>>)
Call(func, arguments, typ) == Expr("Call", arguments, typ, "", func, <<>>)
Constrain(expr) == Expr("Constrain", <<expr>>, TUnit, "", 0, <<>>)
Semi(expr) == Expr("Semi", <<expr>>, TUnit, "", 0, <<>>)
Ident == Expr("Ident", <<>>, TUnit, "", 0, <<>>)

-----------------------------------------------------------------------------
(* FunctionContext: the translation, one operator per codegen_* method.    *)
(* Each takes the expression, its path and the world, and returns          *)
(* [w |-> the world afterwards, v |-> the value].                          *)

RECURSIVE codegen_expression(_, _, _)

\* what a method hands back while a panic unwinds through it
Unwind(w) == [w |-> w, v |-> unit_value]

\* exprs[first..last] translated in order, each from the world the previous
\* one left, stopping at a panic.  The range is split in halves, front
\* before back, so that the recursion is as deep as the logarithm of its
\* length and not as its length.
RECURSIVE codegen_range(_, _, _, _, _)
codegen_range(exprs, first, last, path, w) ==
    IF first > last THEN [w |-> w, v |-> <<>>]
    ELSE IF first = last
    THEN LET r == codegen_expression(exprs[first], Append(path, first), w)
         IN [w |-> r.w, v |-> IF panicked(r.w) THEN <<>> ELSE <<r.v>>]
    ELSE LET middle == (first + last) \div 2
             front == codegen_range(exprs, first, middle, path, w)
         IN IF panicked(front.w) THEN [w |-> front.w, v |-> <<>>]
            ELSE LET back == codegen_range(exprs, middle + 1, last, path, front.w)
                 IN [w |-> back.w, v |-> front.v \o back.v]

\* vecmap(exprs, |e| self.codegen_expression(e)): in order, each from the
\* world the previous one left
codegen_each(exprs, i, path, w) == codegen_range(exprs, i, Len(exprs), path, w)

codegen_non_tuple_expression_mutant(expr, path, w) ==
    LET r == codegen_expression(expr, path, w)
    IN IF panicked(r.w) THEN [w |-> r.w, v |-> 0]
       ELSE [w |-> r.w, v |-> IF IsLeaf(r.v) THEN eval(LeafOf(r.v)) ELSE 0]
codegen_non_tuple_expression(expr, path, w) ==
    LET r == codegen_expression(expr, path, w)
    IN IF panicked(r.w) THEN [w |-> r.w, v |-> 0]
       ELSE IF IsLeaf(r.v) THEN [w |-> r.w, v |-> eval(LeafOf(r.v))]
       ELSE [w |-> Panic(r.w, "codegen_non_tuple_expression called on tuple"), v |-> 0]

\* every stub of the source: todo!()
codegen_todo(w) == Unwind(Panic(w, "not yet implemented"))

\* the stores of codegen_array: leaf i of the elements goes to array + i
RECURSIVE store_each(_, _, _, _, _)
store_each(values, i, array, path, w) ==
    IF i >= Len(values) THEN w
    ELSE LET address == make_offset(w, path, array, i)
             stored == insert_store(address.w, path, address.v, eval(values[i + 1]))
         IN IF panicked(stored) THEN stored
            ELSE store_each(values, i + 1, array, path, stored)

\* size.try_into::<u32>() succeeds: the usize product type_size * len is
\* below 2^32.  The product is compared on 16-bit halves (2^16 = 65536,
\* 2^8 = 256), so that no partial result exceeds the checker's 32-bit
\* integers: with type_size = a1*2^16 + a0 and len = b1*2^16 + b0,
\*   type_size * len \div 2^16 = a1*b1*2^16 + a1*b0 + a0*b1 + a0*b0 \div 2^16
fits_u32(type_size, len) ==
    LET a1 == type_size \div 65536
        a0 == type_size % 65536
        b1 == len \div 65536
        b0 == len % 65536
        low == ((a0 \div 256) * b0 + ((a0 % 256) * b0) \div 256) \div 256
    IN /\ a1 = 0 \/ b1 = 0
       /\ a1 * b0 + a0 * b1 + low < 65536

array_size_mutant(elements, element_type) == Len(elements)
\* let size = element_type.size_of_type() * elements.len();
array_size(elements, element_type) == size_of_type(element_type) * Len(elements)

array_leaves_mutant(elements) ==
    Concat([i \in 1..Len(elements) |-> flatten(elements[Len(elements) + 1 - i])])
\* for element in elements { element.for_each(...) }
array_leaves(elements) == Concat([i \in 1..Len(elements) |-> flatten(elements[i])])

codegen_array(elements, element_type, path, w) ==
    IF ~fits_u32(size_of_type(element_type), Len(elements))
    THEN Unwind(Panic(w, "Cannot allocate bytes for array, it does not fit into a u32"))
    ELSE LET size == array_size(elements, element_type)
             array == insert_allocate(w, path, size)
         IN [w |-> store_each(array_leaves(elements), 0, array.v, path, array.w),
             v |-> Leaf(Normal(array.v))]

\* the constants of a string literal, one per byte
RECURSIVE constant_each(_, _, _, _)
constant_each(bytes, i, path, w) ==
    IF i > Len(bytes) THEN [w |-> w, v |-> <<>>]
    ELSE LET c == numeric_constant(w, path, bytes[i], "field")
         IN IF panicked(c.w) THEN [w |-> c.w, v |-> <<>>]
            ELSE LET rest == constant_each(bytes, i + 1, path, c.w)
                 IN [w |-> rest.w, v |-> <<Leaf(Normal(c.v))>> \o rest.v]

codegen_literal(literal, path, w) ==
    CASE literal.kind = "Array" ->
            LET elements == codegen_each(literal.args, 1, path, w)
            IN IF panicked(elements.w) THEN Unwind(elements.w)
               ELSE codegen_array(elements.v, convert_type(literal.typ), path, elements.w)
      [] literal.kind = "Integer" ->
            LET c == numeric_constant(w, path, literal.n,
                                      convert_non_tuple_type(literal.typ))
            IN [w |-> c.w, v |-> Leaf(Normal(c.v))]
      [] literal.kind = "Bool" ->
            LET c == numeric_constant(w, path, literal.n, "u1")
            IN [w |-> c.w, v |-> Leaf(Normal(c.v))]
      [] literal.kind = "Str" ->
            LET elements == constant_each(literal.bytes, 1, path, w)
            IN codegen_array(elements.v, Leaf("field"), path, elements.w)

codegen_block_mutant(block, path, w) ==
    LET r == codegen_each(block.args, 1, path, w)
    IN IF panicked(r.w) THEN Unwind(r.w)
       ELSE [w |-> r.w, v |-> IF r.v = <<>> THEN unit_value ELSE r.v[1]]
codegen_block(block, path, w) ==
    LET r == codegen_each(block.args, 1, path, w)
    IN IF panicked(r.w) THEN Unwind(r.w)
       ELSE [w |-> r.w, v |-> IF r.v = <<>> THEN unit_value ELSE r.v[Len(r.v)]]

minus_mutant(w, path, zero, rhs) == insert_binary(w, path, rhs, "Sub", zero)
\* self.builder.insert_binary(zero, BinaryOp::Sub, rhs)
minus(w, path, zero, rhs) == insert_binary(w, path, zero, "Sub", rhs)

codegen_unary(unary, path, w) ==
    LET rhs == codegen_non_tuple_expression(unary.args[1], Append(path, 1), w)
    IN IF panicked(rhs.w) THEN Unwind(rhs.w)
       ELSE IF unary.op = "Not"
       THEN LET r == insert_not(rhs.w, path, rhs.v)
            IN [w |-> r.w, v |-> Leaf(Normal(r.v))]
       ELSE LET typ == type_of_value(rhs.w, rhs.v)
                zero == numeric_constant(rhs.w, path, 0, typ)
                r == minus(zero.w, path, zero.v, rhs.v)
            IN [w |-> r.w, v |-> Leaf(Normal(r.v))]

codegen_binary_mutant(binary, path, w) ==
    LET rhs == codegen_non_tuple_expression(binary.args[2], Append(path, 2), w)
    IN IF panicked(rhs.w) THEN Unwind(rhs.w)
       ELSE LET lhs == codegen_non_tuple_expression(binary.args[1], Append(path, 1), rhs.w)
            IN IF panicked(lhs.w) THEN Unwind(lhs.w)
               ELSE LET r == insert_binary(lhs.w, path, lhs.v, binary.op, rhs.v)
                    IN [w |-> r.w, v |-> Leaf(Normal(r.v))]
codegen_binary(binary, path, w) ==
    LET lhs == codegen_non_tuple_expression(binary.args[1], Append(path, 1), w)
    IN IF panicked(lhs.w) THEN Unwind(lhs.w)
       ELSE LET rhs == codegen_non_tuple_expression(binary.args[2], Append(path, 2), lhs.w)
            IN IF panicked(rhs.w) THEN Unwind(rhs.w)
               ELSE LET r == insert_binary(rhs.w, path, lhs.v, binary.op, rhs.v)
                    IN [w |-> r.w, v |-> Leaf(Normal(r.v))]

\* the loads of codegen_index: leaf field_index is read at base_index + field_index
RECURSIVE load_each(_, _, _, _, _, _)
load_each(types, field_index, array, base_index, path, w) ==
    IF field_index >= Len(types) THEN [w |-> w, v |-> <<>>]
    ELSE LET offset == make_offset(w, path, base_index, field_index)
             load == insert_load(offset.w, path, array, offset.v, types[field_index + 1])
         IN IF panicked(load.w) THEN [w |-> load.w, v |-> <<>>]
            ELSE LET rest == load_each(types, field_index + 1, array, base_index, path,
                                       load.w)
                 IN [w |-> rest.w, v |-> <<Normal(load.v)>> \o rest.v]

index_type_size_mutant(element_type) == 1
\* Self::convert_type(&index.element_type).size_of_type()
index_type_size(element_type) == size_of_type(convert_type(element_type))

codegen_index(index, path, w) ==
    LET array == codegen_non_tuple_expression(index.args[1], Append(path, 1), w)
    IN IF panicked(array.w) THEN Unwind(array.w)
       ELSE
       LET base_offset == codegen_non_tuple_expression(index.args[2], Append(path, 2),
                                                       array.w)
       IN IF panicked(base_offset.w) THEN Unwind(base_offset.w)
          ELSE
          LET type_size == field_constant(base_offset.w, path, index_type_size(index.typ))
              base_index == insert_binary(type_size.w, path, base_offset.v, "Mul",
                                          type_size.v)
              shape == convert_type(index.typ)
              loads == load_each(flatten(shape), 0, array.v, base_index.v, path,
                                 base_index.w)
          IN [w |-> loads.w, v |-> reshape(shape, loads.v, 0)]

codegen_cast(cast, path, w) ==
    LET lhs == codegen_non_tuple_expression(cast.args[1], Append(path, 1), w)
    IN IF panicked(lhs.w) THEN Unwind(lhs.w)
       ELSE LET r == insert_cast(lhs.w, path, lhs.v, convert_non_tuple_type(cast.typ))
            IN [w |-> r.w, v |-> Leaf(Normal(r.v))]

\* map_type(&if_expr.typ, |ctx, typ| ctx.builder.add_block_parameter(end_block, typ))
RECURSIVE add_parameter_each(_, _, _, _, _)
add_parameter_each(types, i, block, path, w) ==
    IF i > Len(types) THEN [w |-> w, v |-> <<>>]
    ELSE LET param == add_block_parameter(w, path, block, types[i])
         IN IF panicked(param.w) THEN [w |-> param.w, v |-> <<>>]
            ELSE LET rest == add_parameter_each(types, i + 1, block, path, param.w)
                 IN [w |-> rest.w, v |-> <<Normal(param.v)>> \o rest.v]

\* Tree::into_value_list: the leaves, resolved, depth-first
into_value_list(values) ==
    LET all == flatten(values) IN [i \in 1..Len(all) |-> eval(all[i])]

end_parameter_types_mutant(typ) ==
    LET all == flatten(convert_type(typ))
    IN [i \in 1..Len(all) |-> all[Len(all) + 1 - i]]
\* the leaves map_type visits to add the end block's parameters
end_parameter_types(typ) == flatten(convert_type(typ))

\* lines 186-203: the if has an else branch; `then` is the translated
\* consequence, the cursor is where its translation left it
if_with_else(if_expr, path, then_block, else_block, then) ==
    LET s1 == switch_to_block(then.w, path, else_block)
        else == codegen_expression(if_expr.args[3], Append(path, 3), s1)
    IN IF panicked(else.w) THEN Unwind(else.w)
       ELSE
       LET end_block == insert_block(else.w, path)
           shape == convert_type(if_expr.typ)
           params == add_parameter_each(end_parameter_types(if_expr.typ), 1, end_block.v,
                                        path, end_block.w)
           s2 == terminate_with_jmp(params.w, path, end_block.v, into_value_list(else.v))
           s3 == switch_to_block(s2, path, then_block)
           s4 == terminate_with_jmp(s3, path, end_block.v, into_value_list(then.v))
           s5 == switch_to_block(s4, path, end_block.v)
       IN [w |-> s5, v |-> reshape(shape, params.v, 0)]

if_without_else_no_switch_mutant(if_expr, path, then_block, else_block, then) ==
    [w |-> terminate_with_jmp(then.w, path, else_block, <<>>), v |-> unit_value]
if_without_else_mutant(if_expr, path, then_block, else_block, then) ==
    LET end_block == insert_block(then.w, path)
        s1 == terminate_with_jmp(end_block.w, path, end_block.v, <<>>)
        s2 == switch_to_block(s1, path, end_block.v)
    IN [w |-> s2, v |-> unit_value]
\* lines 204-208: no else branch, the else block is the end block
if_without_else(if_expr, path, then_block, else_block, then) ==
    LET s1 == terminate_with_jmp(then.w, path, else_block, <<>>)
        s2 == switch_to_block(s1, path, else_block)
    IN [w |-> s2, v |-> unit_value]

codegen_if(if_expr, path, w) ==
    LET condition == codegen_non_tuple_expression(if_expr.args[1], Append(path, 1), w)
    IN IF panicked(condition.w) THEN Unwind(condition.w)
       ELSE
       LET then_block == insert_block(condition.w, path)
           else_block == insert_block(then_block.w, path)
           s1 == terminate_with_jmpif(else_block.w, path, condition.v,
                                      then_block.v, else_block.v)
           s2 == switch_to_block(s1, path, then_block.v)
           then == codegen_expression(if_expr.args[2], Append(path, 2), s2)
       IN IF panicked(then.w) THEN Unwind(then.w)
          ELSE IF Len(if_expr.args) = 3
          THEN if_with_else(if_expr, path, then_block.v, else_block.v, then)
          ELSE if_without_else(if_expr, path, then_block.v, else_block.v, then)

codegen_tuple_mutant(tuple, path, w) ==
    LET r == codegen_each(tuple.args, 1, path, w)
    IN IF panicked(r.w) THEN Unwind(r.w)
       ELSE [w |-> r.w, v |-> IF r.v = <<>> THEN Branch(<<>>)
                              ELSE IF Len(r.v) = 1 THEN r.v[1]
                              ELSE Branch(Tail(r.v))]
codegen_tuple(tuple, path, w) ==
    LET r == codegen_each(tuple.args, 1, path, w)
    IN IF panicked(r.w) THEN Unwind(r.w)
       ELSE [w |-> r.w, v |-> Branch(r.v)]

codegen_extract_tuple_field(expr, path, w) ==
    LET r == codegen_expression(expr.args[1], Append(path, 1), w)
    IN IF panicked(r.w) THEN Unwind(r.w)
       ELSE IF IsLeaf(r.v)
       THEN Unwind(Panic(r.w, "Tried to extract tuple index from non-tuple"))
       ELSE IF expr.n >= Len(r.v.kids)
       THEN Unwind(Panic(r.w, "removal index out of bounds"))
       ELSE [w |-> r.w, v |-> r.v.kids[expr.n + 1]]

\* the shared context's map: the entries reserved for a source function
Reserved(w, src) == {i \in 1..Len(w.functions) : w.functions[i].src = src}

\* todo!(): nothing is reserved, enqueued or issued for a call
codegen_call(call, path, w) == codegen_todo(w)

codegen_constrain_mutant(expr, path, w) ==
    LET boolean == codegen_non_tuple_expression(expr.args[1], Append(path, 1), w)
    IN IF panicked(boolean.w) THEN Unwind(boolean.w)
       ELSE [w |-> boolean.w, v |-> unit_value]
codegen_constrain(expr, path, w) ==
    LET boolean == codegen_non_tuple_expression(expr.args[1], Append(path, 1), w)
    IN IF panicked(boolean.w) THEN Unwind(boolean.w)
       ELSE [w |-> insert_constrain(boolean.w, path, boolean.v), v |-> unit_value]

codegen_semi(expr, path, w) ==
    LET r == codegen_expression(expr.args[1], Append(path, 1), w)
    IN IF panicked(r.w) THEN Unwind(r.w)
       ELSE [w |-> r.w, v |-> unit_value]

Literals == {"Array", "Integer", "Bool", "Str"}

\* the method a kind dispatches to
dispatch(expr, path, w) ==
         CASE expr.kind \in Literals -> codegen_literal(expr, path, w)
           [] expr.kind = "Block" -> codegen_block(expr, path, w)
           [] expr.kind = "Unary" -> codegen_unary(expr, path, w)
           [] expr.kind = "Binary" -> codegen_binary(expr, path, w)
           [] expr.kind = "Index" -> codegen_index(expr, path, w)
           [] expr.kind = "Cast" -> codegen_cast(expr, path, w)
           [] expr.kind = "If" -> codegen_if(expr, path, w)
           [] expr.kind = "Tuple" -> codegen_tuple(expr, path, w)
           [] expr.kind = "ExtractTupleField" -> codegen_extract_tuple_field(expr, path, w)
           [] expr.kind = "Call" -> codegen_call(expr, path, w)
           [] expr.kind = "Constrain" -> codegen_constrain(expr, path, w)
           [] expr.kind = "Semi" -> codegen_semi(expr, path, w)
           [] OTHER -> codegen_todo(w)

\* the dispatcher; the value returned for each sub-expression is noted in
\* world.ret with the function and the path it was returned for, the number
\* of builder operations issued so far and the block the cursor is on
codegen_expression(expr, path, w) ==
    LET r == dispatch(expr, path, w)
    IN IF panicked(r.w) THEN Unwind(r.w)
       ELSE [w |-> [r.w EXCEPT !.ret = Append(@, [fn |-> Len(w.built) - 1,
                                                  path |-> path, v |-> r.v,
                                                  at |-> Len(r.w.log),
                                                  cursor |-> r.w.cursor])],
             v |-> r.v]

-----------------------------------------------------------------------------
(* The driver, generate_ssa.                                               *)

\* the world before any function exists; the shared context starts with an
\* empty map and an empty worklist
EmptyWorld ==
    [blocks |-> <<>>, cursor |-> 0, values |-> <<>>, log |-> <<>>, panic |-> "",
     queue |-> <<>>, functions |-> <<>>,
     popped |-> <<>>, built |-> <<>>, ret |-> <<>>]

\* FunctionBuilder::new / new_function followed by add_parameters_to_scope:
\* the next function id, its entry block with the cursor on it, and one
\* block parameter per leaf of each parameter's type
new_function(w, src, parameters) ==
    LET id == Len(w.built)
        entry == Len(w.blocks) + 1
        s1 == [w EXCEPT !.built = Append(@, [src |-> src, id |-> id, entry |-> entry]),
                        !.blocks = Append(@, [fn |-> id, params |-> <<>>, terms |-> <<>>]),
                        !.cursor = entry]
        s2 == [s1 EXCEPT !.log = Append(@, [Op("new_function", <<>>, s1) EXCEPT !.n = id])]
        types == Concat([i \in 1..Len(parameters) |-> flatten(convert_type(parameters[i]))])
    IN add_parameter_each(types, 1, entry, <<>>, s2).w

main == program[1]

\* lines 20-25: the contexts and the function context of main
Begin ==
    /\ pc = "start"
    /\ world' = new_function(world, 0, main.parameters)
    /\ pc' = "main"
    /\ UNCHANGED program

Translate(w, function) == codegen_expression(function.body, <<>>, w).w

\* line 27
TranslateMain ==
    /\ pc = "main"
    /\ world' = Translate(world, main)
    /\ pc' = IF panicked(world') THEN "aborted" ELSE "drain"
    /\ UNCHANGED program

\* SharedContext::pop_next_function_in_queue: first in, first out
pop_next_function_in_queue(w) ==
    [w |-> [w EXCEPT !.queue = Tail(@), !.popped = Append(@, Head(w.queue))],
     v |-> Head(w.queue)]

\* lines 29-34: one evaluation of the loop condition and, when an entry was
\* popped, the loop body; the popped reserved id is not used
DrainStep ==
    /\ pc = "drain"
    /\ IF world.queue = <<>>
       THEN /\ pc' = "done"
            /\ world' = world
       ELSE LET next == pop_next_function_in_queue(world)
                function == program[next.v.src + 1]
            IN /\ world' = Translate(new_function(next.w, next.v.src, function.parameters),
                                     function)
               /\ pc' = IF panicked(world') THEN "aborted" ELSE "drain"
    /\ UNCHANGED program

Next == Begin \/ TranslateMain \/ DrainStep

-----------------------------------------------------------------------------
(* The programs checked: well-typed expressions by static type (field,     *)
(* bool, unit, the pair (field, bool)), nested two levels deep; if-nests   *)
(* three levels deep, and an instruction after a nest; array and string    *)
(* literals and their indexing; constraints on a field of a pair;          *)
(* expressions the stubs and the fatal checks reject; programs with calls. *)

TPair == TTuple(<<TField, TBool>>)
TNested == TTuple(<<TField, TPair>>)

Grow(g) ==
    [F |-> g.F
           \cup {Unary("Minus", f) : f \in g.F}
           \cup {Binary(f[1], "Add", f[2]) : f \in g.F \X g.F}
           \cup {Cast(b, TField) : b \in g.B}
           \cup {IfElse(x[1], x[2], x[3], TField) : x \in g.B \X g.F \X g.F}
           \cup {ExtractTupleField(p, 0) : p \in g.P}
           \cup {Block(<<x[1], x[2]>>) : x \in g.U \X g.F},
     B |-> g.B
           \cup {Unary("Not", b) : b \in g.B}
           \cup {Binary(f[1], "Lt", f[2]) : f \in g.F \X g.F}
           \cup {ExtractTupleField(p, 1) : p \in g.P},
     U |-> g.U
           \cup {Constrain(b) : b \in g.B}
           \cup {Semi(x) : x \in g.F \cup g.U}
           \cup {If(x[1], x[2], TUnit) : x \in g.B \X (g.U \cup g.F)}
           \cup {IfElse(x[1], x[2], x[3], TUnit) : x \in g.B \X g.U \X g.U}
           \cup {Block(<<x[1], x[2]>>) : x \in g.U \X g.U},
     P |-> g.P
           \cup {Tuple(<<x[1], x[2]>>) : x \in g.F \X g.B}
           \cup {IfElse(x[1], x[2], x[3], TPair) : x \in g.B \X g.P \X g.P}]

Level0 ==
    [F |-> {Integer(n, TField) : n \in 1..MaxInt},
     B |-> {Bool(TRUE)},
     U |-> {Block(<<>>)},
     P |-> {}]
Level1 == Grow(Level0)
Level2 == Grow(Level1)

Typed == Level2.F \cup Level2.B \cup Level2.U \cup Level2.P

\* if-expressions nested in both branches
NestIf(X) ==
    X \cup {If(Bool(TRUE), x, TUnit) : x \in X}
      \cup {IfElse(Bool(TRUE), x[1], x[2], TUnit) : x \in X \X X}
IfNests == NestIf(NestIf(NestIf({Block(<<>>), Constrain(Bool(TRUE))})))

\* array literals of 0..MaxElems elements, by element type
ElementsOf ==
    [typ \in {TField, TPair, TNested, TUnit, TArray} |->
        CASE typ = TField ->
                {Integer(n, TField) : n \in 1..MaxInt}
                  \cup {Unary("Minus", Integer(1, TField)),
                        IfElse(Bool(TRUE), Integer(1, TField), Integer(2, TField), TField)}
          [] typ = TPair -> {Tuple(<<Integer(n, TField), Bool(TRUE)>>) : n \in 1..MaxInt}
          [] typ = TNested ->
                {Tuple(<<Integer(n, TField), Tuple(<<Integer(1, TField), Bool(FALSE)>>)>>) :
                    n \in 1..MaxInt}
          [] typ = TUnit -> {Block(<<>>)}
          [] typ = TArray -> {Array(<<Integer(1, TField)>>, TField)}]

Arrays ==
    UNION {{Array(contents, typ) : contents \in [1..n -> ElementsOf[typ]]} :
             <<n, typ>> \in (0..MaxElems) \X DOMAIN ElementsOf}

Strings == {Str([i \in 1..n |-> 96 + i]) : n \in 0..MaxElems}

\* every literal indexed at every position of it
Indexings ==
    {Index(a, Integer(i, TField), a.typ) : <<a, i>> \in
        {x \in Arrays \X (0..MaxElems) : x[2] < Len(x[1].args)}}

\* tuples nested, selected by an if, and taken apart again
Pairs == Level1.P \cup {IfElse(Bool(TRUE), x[1], x[2], TPair) : x \in Level1.P \X Level1.P}
Tuples ==
    {Tuple(<<>>), Tuple(<<Integer(1, TField), Bool(TRUE), Block(<<>>)>>)}
      \cup {ExtractTupleField(p, i) : <<p, i>> \in Pairs \X (0..1)}
      \cup {Tuple(<<x[1], x[2]>>) : x \in Level0.F \X Pairs}
      \cup {ExtractTupleField(ExtractTupleField(Tuple(<<x[1], x[2]>>), 1), i) :
               <<x, i>> \in (Level0.F \X Pairs) \X (0..1)}

\* an instruction issued after an if-nest two levels deep
Sequels ==
    {Block(<<x, Constrain(Bool(TRUE))>>) : x \in NestIf(NestIf({Block(<<>>)}))}

\* a constraint on a field of a pair, the pair possibly selected by an if
Asserted == {Constrain(ExtractTupleField(p, 1)) : p \in Pairs}

\* a tuple type nested as deep as `fans` is long, level i of fans[i] fields
RECURSIVE TWide(_)
TWide(fans) ==
    IF fans = <<>> THEN TField
    ELSE LET field == TWide(Tail(fans)) IN TTuple([i \in 1..Head(fans) |-> field])

\* an array literal declared with 2^13 elements of 2^19 leaves each, 2^32
\* slots in all; its elements are empty tuples, which issue nothing
Overflowing == Array([i \in 1..8192 |-> Tuple(<<>>)], TWide(<<8, 16, 64, 64>>))

\* negations of operands of each scalar type
Negated ==
    {Unary("Minus", Integer(1, TU32)),
     Unary("Minus", Cast(Integer(2, TField), TU32)),
     Unary("Minus", Bool(TRUE)),
     Unary("Not", Integer(1, TU32))}

\* what the stubs and the fatal checks reject
Rejected ==
    {Ident,
     Overflowing,
     Block(<<Constrain(Bool(TRUE)), Ident, Constrain(Bool(TRUE))>>),
     ExtractTupleField(Integer(1, TField), 0),
     Unary("Not", Tuple(<<Bool(TRUE), Bool(TRUE)>>)),
     Binary(Integer(1, TField), "Add", Tuple(<<Integer(1, TField)>>)),
     Constrain(Block(<<>>)),
     IfElse(Tuple(<<Bool(TRUE)>>), Integer(1, TField), Integer(2, TField), TField),
     Binary(Tuple(<<Integer(1, TField)>>), "Add", Integer(2, TField)),
     Cast(Tuple(<<Bool(TRUE), Bool(TRUE)>>), TField),
     Index(Tuple(<<Integer(1, TField)>>), Integer(0, TField), TField),
     Index(Array(<<Integer(1, TField)>>, TField), Block(<<>>), TField),
     If(Block(<<>>), Constrain(Bool(TRUE)), TUnit),
     ExtractTupleField(ExtractTupleField(Tuple(<<Integer(1, TField), Bool(TRUE)>>), 0), 0),
     Block(<<Constrain(Bool(TRUE)),
             Unary("Minus", Tuple(<<Integer(1, TField), Integer(2, TField)>>)),
             Constrain(Bool(TRUE))>>),
     IfElse(Bool(TRUE), Constrain(Tuple(<<Bool(TRUE)>>)), Constrain(Bool(TRUE)), TUnit),
     Array(<<Integer(1, TField), ExtractTupleField(Integer(2, TField), 0)>>, TField)}

Function(parameters, body) == [parameters |-> parameters, body |-> body]

\* function 0 is main; 1 takes nothing, 2 takes a pair
CallOf(f) ==
    IF f = 2
    THEN Call(2, <<Tuple(<<Integer(1, TField), Bool(TRUE)>>)>>, TUnit)
    ELSE Call(f, <<>>, TUnit)

CallBodies ==
    {Block(<<>>)}
      \cup {CallOf(f) : f \in 1..2}
      \cup {Block(<<Semi(CallOf(x[1])), CallOf(x[2])>>) : x \in (1..2) \X (1..2)}

CallPrograms ==
    {<<Function(<<>>, b[1]), Function(<<>>, b[2]), Function(<<TPair>>, b[3])>> :
        b \in CallBodies \X CallBodies \X CallBodies}

Programs ==
    {<<Function(<<>>, e)>> : e \in Typed \cup IfNests \cup Sequels \cup Tuples \cup Asserted
                                     \cup Negated
                                     \cup Arrays \cup Strings \cup Indexings
                                     \cup Rejected}
      \cup CallPrograms

Init ==
    /\ program \in Programs
    /\ pc = "start"
    /\ world = EmptyWorld

Spec == Init /\ [][Next]_vars

-----------------------------------------------------------------------------
(* Reading a world: the operations issued for a sub-expression of the      *)
(* function being checked (main, function 0), the values returned.         *)

IsPrefix(p, q) == Len(p) <= Len(q) /\ SubSeq(q, 1, Len(p)) = p

RECURSIVE ExprAt(_, _)
ExprAt(e, p) == IF p = <<>> THEN e ELSE ExprAt(e.args[Head(p)], Tail(p))

Log == world.log

\* positions of the log issued by main's sub-expression at p itself, and by
\* it or anything below it
Own(p) == {i \in 1..Len(Log) : Log[i].fn = 0 /\ Log[i].path = p
                                 /\ Log[i].op # "new_function"}
Below(p) == {i \in 1..Len(Log) : Log[i].fn = 0 /\ IsPrefix(p, Log[i].path)
                                   /\ Log[i].op # "new_function"}

\* the operations a handler issued itself, in order
OwnOps(p) == SelectSeq(Log, LAMBDA o : o.fn = 0 /\ o.path = p /\ o.op # "new_function")
OwnOf(p, name) == SelectSeq(OwnOps(p), LAMBDA o : o.op = name)

\* the sub-expressions of main whose translation returned, and their values
Returned == {world.ret[i].path : i \in {j \in 1..Len(world.ret) : world.ret[j].fn = 0}}
RetAt(p) == (CHOOSE i \in 1..Len(world.ret) :
                world.ret[i].fn = 0 /\ world.ret[i].path = p)
ValueAt(p) == world.ret[RetAt(p)].v

\* the sub-expressions of main of one kind whose translation returned
ReturnedOf(kind) == {p \in Returned : ExprAt(main.body, p).kind = kind}

Ended == pc \in {"done", "aborted"}

Blocks == world.blocks

-----------------------------------------------------------------------------
(* C1..C4                                                                  *)

\* C1: every block gets exactly one terminator, set exactly once: no block
\* is terminated a second time, and once the translation of the function
\* has finished every block but the one the cursor is on has a terminator.
C1_OneTerminatorPerBlock ==
    /\ \A b \in 1..Len(Blocks) : Len(Blocks[b].terms) <= 1
    /\ pc = "done" =>
          \A b \in 1..Len(Blocks) : b # world.cursor => Len(Blocks[b].terms) = 1

\* the position of the end block's creation among an if-else's own operations
EndBlockOf(p) == OwnOf(p, "insert_block")[3].tgt[1]

\* C2: for an if with both branches whose result type has L leaves, the
\* end block has exactly L parameters, added in depth-first leaf order of
\* the result type; the two jumps to it carry L arguments each, the
\* else-value's and the then-value's leaves in order; every unconditional
\* jump carries as many arguments as its target has parameters; the value
\* returned is the end block's parameters in the shape of the result type;
\* a single if with literal branches makes 4 blocks.
C2_EndBlockParameters ==
    /\ \A p \in ReturnedOf("If") :
          LET e == ExprAt(main.body, p)
              shape == convert_type(e.typ)
              L == size_of_type(shape)
              end == EndBlockOf(p)
              jumps == OwnOf(p, "jmp")
              added == OwnOf(p, "add_param")
          IN Len(e.args) = 3 =>
                /\ Len(OwnOf(p, "insert_block")) = 3
                /\ Len(Blocks[end].params) = L
                /\ Len(added) = L
                /\ \A i \in 1..L : /\ added[i].tgt = <<end>>
                                   /\ added[i].typ = flatten(shape)[i]
                                   /\ added[i].res = Blocks[end].params[i]
                /\ Len(jumps) = 2
                /\ \A j \in 1..2 : jumps[j].tgt = <<end>> /\ Len(jumps[j].args) = L
                /\ jumps[1].args = into_value_list(ValueAt(p \o <<3>>))
                /\ jumps[2].args = into_value_list(ValueAt(p \o <<2>>))
                /\ ValueAt(p) = reshape(shape, [i \in 1..L |-> Normal(Blocks[end].params[i])], 0)
    /\ \A b \in 1..Len(Blocks) : \A t \in 1..Len(Blocks[b].terms) :
          Blocks[b].terms[t].k = "jmp" =>
             Len(Blocks[b].terms[t].args) = Len(Blocks[Blocks[b].terms[t].tgt[1]].params)
    /\ (/\ pc = "done"
        /\ main.body.kind = "If"
        /\ Len(main.body.args) = 3
        /\ \A i \in 1..3 : main.body.args[i].kind \in {"Integer", "Bool"})
       => Len(Blocks) = 4

\* an if-else over a pair has been translated: its end block has two parameters
C2_Witness ==
    /\ pc = "done"
    /\ \E p \in ReturnedOf("If") :
          /\ Len(ExprAt(main.body, p).args) = 3
          /\ ExprAt(main.body, p).typ = TPair
          /\ Len(Blocks[EndBlockOf(p)].params) = 2

\* the source functions main reaches through calls
RECURSIVE Callees(_)
Callees(e) ==
    (IF e.kind = "Call" THEN {e.n} ELSE {})
      \cup UNION {Callees(e.args[i]) : i \in 1..Len(e.args)}

RECURSIVE ReachableFrom(_)
ReachableFrom(S) ==
    LET more == S \cup UNION {Callees(program[f + 1].body) : f \in S}
    IN IF more = S THEN S ELSE ReachableFrom(more)

BuiltFor(f) == {i \in 1..Len(world.built) : world.built[i].src = f}

\* C3: driving a whole program through generate_ssa, every function
\* reachable from the entry function is translated exactly once, each
\* callee has exactly one worklist entry, popped first in first out, and
\* the run ends with the worklist empty.
C3_EveryReachableFunctionOnce ==
    /\ \A f \in 0..(Len(program) - 1) : Cardinality(BuiltFor(f)) <= 1
    /\ \A f \in 0..(Len(program) - 1) : Cardinality(Reserved(world, f)) <= 1
    /\ world.popped = SubSeq(world.functions, 1, Len(world.popped))
    /\ pc = "done" => world.queue = <<>>
    /\ Ended => \A f \in ReachableFrom({0}) : Cardinality(BuiltFor(f)) = 1

\* C4: the function built for a popped worklist entry has the entry's
\* reserved id (the k-th entry popped is the k-th function built after main).
\* Nothing in the source enqueues a function (codegen_call and codegen_ident
\* are todo!()), so no entry is ever popped and no reachable state tests it.
C4_BuiltUnderReservedId ==
    \A k \in 1..Len(world.popped) :
        /\ world.built[k + 1].src = world.popped[k].src
        /\ world.built[k + 1].id = world.popped[k].id

-----------------------------------------------------------------------------
(* C5..C10                                                                 *)

\* what defines a value: the log entry whose result it is
DefOf(v) == Log[CHOOSE i \in 1..Len(Log) : Log[i].res = v]

\* the number a value denotes when it is built from constants by Add and
\* Mul, an allocation counting as address 0 of its own storage
RECURSIVE NumOf(_)
NumOf(v) ==
    LET d == DefOf(v)
    IN CASE d.op = "const" -> d.n
         [] d.op = "allocate" -> 0
         [] d.op = "binary" /\ d.bop = "Add" -> NumOf(d.args[1]) + NumOf(d.args[2])
         [] d.op = "binary" /\ d.bop = "Mul" -> NumOf(d.args[1]) * NumOf(d.args[2])
         [] OTHER -> -1

\* the allocation an address is an offset of
RECURSIVE BaseOf(_)
BaseOf(v) ==
    LET d == DefOf(v)
    IN IF d.op = "binary" /\ d.bop = "Add" THEN BaseOf(d.args[1]) ELSE v

\* C5: an array literal of N elements whose element type has K leaves
\* emits one allocate of N*K slots and N*K stores; leaf leafIndex of
\* element elementIndex is stored at base + elementIndex*K + leafIndex; the
\* value returned is the single leaf holding the base address.
C5_ArrayLayout ==
    \A p \in ReturnedOf("Array") :
        LET e == ExprAt(main.body, p)
            N == Len(e.args)
            K == size_of_type(convert_type(e.typ))
            allocs == OwnOf(p, "allocate")
            stores == OwnOf(p, "store")
        IN /\ Len(allocs) = 1
           /\ allocs[1].n = N * K
           /\ Len(stores) = N * K
           /\ ValueAt(p) = Leaf(Normal(allocs[1].res))
           /\ \A elementIndex \in 0..(N - 1) : \A leafIndex \in 0..(K - 1) :
                 LET store == stores[elementIndex * K + leafIndex + 1]
                 IN /\ BaseOf(store.args[1]) = allocs[1].res
                    /\ NumOf(store.args[1]) = elementIndex * K + leafIndex
                    /\ store.args[2] =
                          eval(flatten(ValueAt(p \o <<elementIndex + 1>>))[leafIndex + 1])

\* an array of two pairs has been stored: 4 slots, 4 stores
C5_Witness ==
    \E p \in ReturnedOf("Array") :
        /\ Len(ExprAt(main.body, p).args) = 2
        /\ ExprAt(main.body, p).typ = TPair
        /\ Len(OwnOf(p, "store")) = 4

\* the value stored in slot `slot` of the storage allocated as `array`
StoredAt(array, slot) ==
    LET at == {i \in 1..Len(Log) : /\ Log[i].op = "store"
                                   /\ BaseOf(Log[i].args[1]) = array
                                   /\ NumOf(Log[i].args[1]) = slot}
    IN Log[CHOOSE i \in at : TRUE].args[2]

\* C6: indexing an array of element leaf-count K emits one multiply of the
\* index by K and K loads from the array, at offsets index*K .. index*K+K-1
\* in depth-first leaf order, each with its leaf's scalar type, and returns
\* them in the shape of the element type; indexing a literal at an in-range
\* position reads the slots that hold the leaves of that element.
C6_IndexLoads ==
    \A p \in ReturnedOf("Index") :
        LET e == ExprAt(main.body, p)
            shape == convert_type(e.typ)
            K == size_of_type(shape)
            array == eval(LeafOf(ValueAt(p \o <<1>>)))
            index == eval(LeafOf(ValueAt(p \o <<2>>)))
            muls == SelectSeq(OwnOf(p, "binary"), LAMBDA o : o.bop = "Mul")
            loads == OwnOf(p, "load")
            literal == e.args[1].kind = "Array" /\ e.args[2].kind = "Integer"
                       /\ e.args[2].n < Len(e.args[1].args)
        IN /\ Len(muls) = 1
           /\ muls[1].args[1] = index
           /\ DefOf(muls[1].args[2]).op = "const" /\ DefOf(muls[1].args[2]).n = K
           /\ Len(loads) = K
           /\ ValueAt(p) = reshape(shape, [j \in 1..K |-> Normal(loads[j].res)], 0)
           /\ \A j \in 1..K :
                 /\ loads[j].args[1] = array
                 /\ BaseOf(loads[j].args[2]) = muls[1].res
                 /\ loads[j].typ = flatten(shape)[j]
                 /\ \A i \in Own(p) : Log[i] = muls[1] =>
                       \A l \in Own(p) : Log[l] = loads[j] => i < l
                 /\ NumOf(index) >= 0 =>
                       NumOf(loads[j].args[2]) = NumOf(index) * K + (j - 1)
                 /\ literal =>
                       StoredAt(array, NumOf(loads[j].args[2])) =
                          eval(flatten(ValueAt(p \o <<1, e.args[2].n + 1>>))[j])

\* the second element of an array of nested tuples has been read back
C6_Witness ==
    \E p \in ReturnedOf("Index") :
        LET e == ExprAt(main.body, p)
        IN /\ e.typ = TNested
           /\ e.args[1].kind = "Array" /\ Len(e.args[1].args) = 2
           /\ e.args[2].n = 1
           /\ Len(OwnOf(p, "load")) = 3

\* C7: for every binary expression, every operation issued for the left
\* operand comes before every operation issued for the right operand, and
\* the combining binary instruction comes after both.
C7_LeftBeforeRight ==
    \A p \in ReturnedOf("Binary") :
        /\ \A i \in Below(p \o <<1>>) : \A j \in Below(p \o <<2>>) : i < j
        /\ Len(OwnOps(p)) = 1
        /\ \A k \in Own(p) :
              /\ Log[k].op = "binary"
              /\ Log[k].bop = ExprAt(main.body, p).op
              /\ Log[k].args = <<eval(LeafOf(ValueAt(p \o <<1>>))),
                                 eval(LeafOf(ValueAt(p \o <<2>>)))>>
              /\ \A i \in Below(p \o <<1>>) \cup Below(p \o <<2>>) : i < k

\* a binary expression whose two operands both branch has been translated
C7_Witness ==
    \E p \in ReturnedOf("Binary") :
        /\ ExprAt(main.body, p).args[1].kind = "If"
        /\ ExprAt(main.body, p).args[2].kind = "If"
        /\ \E i \in Below(p \o <<1>>) : Log[i].op = "jmpif"
        /\ \E j \in Below(p \o <<2>>) : Log[j].op = "jmpif"

\* C8: unary minus on an operand of scalar type S issues, after the
\* operand's operations, a constant 0 of type S and then one Sub with the
\* zero on the left and the operand on the right, and nothing else; unary
\* not issues exactly one not on the operand.
C8_UnaryLowering ==
    \A p \in ReturnedOf("Unary") :
        LET e == ExprAt(main.body, p)
            operand == eval(LeafOf(ValueAt(p \o <<1>>)))
            own == OwnOps(p)
        IN /\ \A i \in Below(p \o <<1>>) : \A k \in Own(p) : i < k
           /\ e.op = "Minus" =>
                 /\ Len(own) = 2
                 /\ own[1].op = "const" /\ own[1].n = 0
                 /\ own[1].typ = type_of_value(world, operand)
                 /\ own[2].op = "binary" /\ own[2].bop = "Sub"
                 /\ own[2].args = <<own[1].res, operand>>
                 /\ ValueAt(p) = Leaf(Normal(own[2].res))
           /\ e.op = "Not" =>
                 /\ Len(own) = 1
                 /\ own[1].op = "not" /\ own[1].args = <<operand>>
                 /\ ValueAt(p) = Leaf(Normal(own[1].res))

\* a negation of a selected field value has been translated
C8_Witness ==
    \E p \in ReturnedOf("Unary") :
        /\ ExprAt(main.body, p).op = "Minus"
        /\ ExprAt(main.body, p).args[1].kind = "If"
        /\ Len(OwnOps(p)) = 2

\* the block the cursor is on once the operations of p and below are issued
CursorAfter(p, start) ==
    LET switches == {i \in Below(p) : Log[i].op = "switch"}
    IN IF switches = {} THEN start
       ELSE Log[CHOOSE i \in switches : \A j \in switches : j <= i].tgt[1]

\* C9: an if without else creates exactly two blocks (then, else) and no
\* end block, adds no block parameter, terminates the block where the
\* then-body's translation finished with an argument-less jump to the else
\* block, leaves the cursor on the else block and returns the unit value.
C9_IfWithoutElse ==
    \A p \in ReturnedOf("If") :
        LET e == ExprAt(main.body, p)
            own == OwnOps(p)
            then_block == own[1].tgt[1]
            else_block == own[2].tgt[1]
        IN Len(e.args) = 2 =>
              /\ Len(own) = 6
              /\ own[1].op = "insert_block" /\ own[2].op = "insert_block"
              /\ then_block # else_block
              /\ own[3].op = "jmpif" /\ own[3].tgt = <<then_block, else_block>>
              /\ own[4].op = "switch" /\ own[4].tgt = <<then_block>>
              /\ own[5].op = "jmp" /\ own[5].tgt = <<else_block>> /\ own[5].args = <<>>
              /\ own[5].blk = CursorAfter(p \o <<2>>, then_block)
              /\ own[6].op = "switch" /\ own[6].tgt = <<else_block>>
              /\ Blocks[else_block].params = <<>>
              /\ CursorAfter(p, 0) = else_block
              /\ ValueAt(p) = unit_value

\* an if without else whose then-body is itself an if has been translated
C9_Witness ==
    \E p \in ReturnedOf("If") :
        /\ Len(ExprAt(main.body, p).args) = 2
        /\ ExprAt(main.body, p).args[2].kind = "If"
        /\ Len(OwnOps(p)) = 6

\* the static type the frontend gives an expression
RECURSIVE StaticType(_)
StaticType(e) ==
    CASE e.kind \in {"Integer", "Bool", "Str", "Index", "Cast", "If", "Call"} -> e.typ
      [] e.kind = "Array" -> TArray
      [] e.kind = "Block" ->
            IF e.args = <<>> THEN TUnit ELSE StaticType(e.args[Len(e.args)])
      [] e.kind = "Unary" -> StaticType(e.args[1])
      [] e.kind = "Binary" ->
            IF e.op \in Comparisons THEN TBool ELSE StaticType(e.args[1])
      [] e.kind = "Tuple" -> TTuple([i \in 1..Len(e.args) |-> StaticType(e.args[i])])
      [] e.kind = "ExtractTupleField" -> StaticType(e.args[1]).fields[e.n + 1]
      [] OTHER -> TUnit

\* two trees branch alike
RECURSIVE SameShape(_, _)
SameShape(a, b) ==
    /\ IsLeaf(a) = IsLeaf(b)
    /\ Len(a.kids) = Len(b.kids)
    /\ \A i \in 1..Len(a.kids) : SameShape(a.kids[i], b.kids[i])

\* the programs of the typed families
WellTyped == main.body \notin Rejected /\ Len(program) = 1

\* C10: the value returned for an expression of static type T branches as
\* the type tree of T does and has as many leaves; a tuple of N elements
\* returns a branch of its N elements' values in source order, and
\* extracting field i returns the i-th of them.
C10_ValueShape ==
    WellTyped =>
       \A p \in Returned :
           LET e == ExprAt(main.body, p)
               shape == convert_type(StaticType(e))
           IN /\ SameShape(ValueAt(p), shape)
              /\ size_of_type(ValueAt(p)) = size_of_type(shape)
              /\ e.kind = "Tuple" =>
                    ValueAt(p) = Branch([i \in 1..Len(e.args) |-> ValueAt(p \o <<i>>)])
              /\ e.kind = "ExtractTupleField" =>
                    ValueAt(p) = ValueAt(p \o <<1>>).kids[e.n + 1]

\* the second field of a pair selected by an if has been extracted
C10_Witness ==
    \E p \in ReturnedOf("ExtractTupleField") :
        /\ ExprAt(main.body, p).n = 1
        /\ ExprAt(main.body, p).args[1].kind = "If"
        /\ IsLeaf(ValueAt(p))
        /\ Len(ValueAt(p \o <<1>>).kids) = 2

-----------------------------------------------------------------------------
(* C11..C16                                                                *)

\* the paths of the sub-expressions of e
RECURSIVE Paths(_)
Paths(e) ==
    {<<>>} \cup UNION {{<<i>> \o q : q \in Paths(e.args[i])} : i \in 1..Len(e.args)}

\* the operands a handler takes through codegen_non_tuple_expression
ScalarOperands(e) ==
    CASE e.kind \in {"Unary", "Cast", "Constrain", "If"} -> {1}
      [] e.kind \in {"Binary", "Index"} -> {1, 2}
      [] OTHER -> {}

\* the last sub-expression whose translation returned
LastReturned == world.ret[Len(world.ret)]

\* the pass stopped right after the sub-expression at q returned: q is the
\* last one that returned and no builder operation was issued since
AbortedAfter(q, message) ==
    /\ pc = "aborted"
    /\ world.panic = message
    /\ LastReturned.fn = 0 /\ LastReturned.path = q
    /\ Len(Log) = LastReturned.at
    /\ \A a \in Paths(main.body) : IsPrefix(a, q) /\ a # q => a \notin Returned

\* C11: a fatal-internal condition aborts the pass where it is detected and
\* no builder operation is issued afterwards: a branch value returned for
\* an operand that has to be a scalar (unary, binary, cast, constrain,
\* index, if condition), a leaf value returned for the tuple of a field
\* extraction, and an array literal whose slot count does not fit in 32
\* bits, which gets neither an allocate nor a store.
C11_FatalAborts ==
    /\ \A p \in Paths(main.body) :
          LET e == ExprAt(main.body, p)
          IN /\ \A i \in ScalarOperands(e) :
                   (p \o <<i>> \in Returned /\ ~IsLeaf(ValueAt(p \o <<i>>))) =>
                      /\ AbortedAfter(p \o <<i>>,
                                      "codegen_non_tuple_expression called on tuple")
                      /\ OwnOps(p) = <<>>
             /\ (/\ e.kind = "ExtractTupleField"
                 /\ p \o <<1>> \in Returned
                 /\ IsLeaf(ValueAt(p \o <<1>>))) =>
                   AbortedAfter(p \o <<1>>, "Tried to extract tuple index from non-tuple")
             /\ e.kind = "Array" =>
                   LET N == Len(e.args)
                       K == size_of_type(convert_type(e.typ))
                   IN /\ ((\A i \in 1..N : p \o <<i>> \in Returned) /\ ~fits_u32(K, N)) =>
                         /\ AbortedAfter(p \o <<N>>,
                               "Cannot allocate bytes for array, it does not fit into a u32")
                         /\ \A i \in Own(p) : Log[i].op \notin {"allocate", "store"}
                      /\ (\E i \in Own(p) : Log[i].op = "allocate") => fits_u32(K, N)
    /\ pc = "aborted" => ~ENABLED Next

\* every element of an array literal of 2^32 slots was translated and the
\* pass aborted on the size, with no allocate and no store
C11_Witness ==
    /\ pc = "aborted"
    /\ world.panic = "Cannot allocate bytes for array, it does not fit into a u32"
    /\ main.body.kind = "Array"
    /\ Len(main.body.args) > 0
    /\ LastReturned.path = <<Len(main.body.args)>>
    /\ ~fits_u32(size_of_type(convert_type(main.body.typ)), Len(main.body.args))
    /\ \A i \in 1..Len(Log) : Log[i].op \notin {"allocate", "store"}

\* the block the cursor was on when the translation of main's
\* sub-expression at p returned
CursorAt(p) == world.ret[RetAt(p)].cursor

\* C12: in an if with an else branch, the jump that carries the then-result
\* is placed on the block the cursor was on when the then-body's
\* translation finished, and the jump that carries the else-result on the
\* block the cursor was on when the else-body's translation finished; each
\* of the two blocks then has that jump to the end block as its one
\* terminator.
C12_JumpsOnFinishingBlocks ==
    \A p \in ReturnedOf("If") :
        LET jumps == OwnOf(p, "jmp")
            end == EndBlockOf(p)
            then_end == CursorAt(p \o <<2>>)
            else_end == CursorAt(p \o <<3>>)
        IN Len(ExprAt(main.body, p).args) = 3 =>
              /\ jumps[1].blk = else_end
              /\ jumps[1].args = into_value_list(ValueAt(p \o <<3>>))
              /\ jumps[2].blk = then_end
              /\ jumps[2].args = into_value_list(ValueAt(p \o <<2>>))
              /\ \A b \in {then_end, else_end} :
                    /\ Len(Blocks[b].terms) = 1
                    /\ Blocks[b].terms[1].k = "jmp"
                    /\ Blocks[b].terms[1].tgt = <<end>>

\* the stores of a literal at p write `values`, in order, at offsets
\* 0, 1, ... of the storage allocated as `array`, all after the allocate
StoresInOrder(p, array, values) ==
    LET stores == OwnOf(p, "store")
    IN /\ Len(stores) = Len(values)
       /\ \A k \in 1..Len(stores) :
             /\ stores[k].args[2] = values[k]
             /\ BaseOf(stores[k].args[1]) = array
             /\ NumOf(stores[k].args[1]) = k - 1

\* C13: an array literal issues all operations of element 0's expression,
\* then element 1's, and so on in source order; then the one allocate; then
\* the stores, element by element and within an element in depth-first
\* leaf order, at the consecutive offsets 0 .. N*K-1.  A string literal
\* does the same with one field constant per byte, in byte order, as its
\* elements and one leaf per element.
C13_ArrayOrder ==
    /\ \A p \in ReturnedOf("Array") :
          LET e == ExprAt(main.body, p)
              N == Len(e.args)
              K == size_of_type(convert_type(e.typ))
              own == OwnOps(p)
              allocate == CHOOSE i \in Own(p) : Log[i].op = "allocate"
              leaves == Concat([i \in 1..N |-> into_value_list(ValueAt(p \o <<i>>))])
          IN /\ \A i \in 1..N : \A j \in (i + 1)..N :
                   \A a \in Below(p \o <<i>>) : \A b \in Below(p \o <<j>>) : a < b
             /\ Len(OwnOf(p, "allocate")) = 1
             /\ own # <<>> /\ own[1].op = "allocate"
             /\ \A i \in 1..N : \A a \in Below(p \o <<i>>) : a < allocate
             /\ \A i \in Own(p) : allocate <= i
             /\ Len(leaves) = N * K
             /\ StoresInOrder(p, Log[allocate].res, leaves)
    /\ \A p \in ReturnedOf("Str") :
          LET bytes == ExprAt(main.body, p).bytes
              N == Len(bytes)
              own == OwnOps(p)
          IN /\ Len(OwnOf(p, "allocate")) = 1
             /\ Len(own) > N
             /\ \A i \in 1..N : /\ own[i].op = "const"
                                /\ own[i].n = bytes[i]
                                /\ own[i].typ = "field"
             /\ own[N + 1].op = "allocate" /\ own[N + 1].n = N
             /\ StoresInOrder(p, own[N + 1].res, [i \in 1..N |-> own[i].res])

\* an array of two nested tuples has been stored, six leaves in six slots
C13_Witness ==
    \E p \in ReturnedOf("Array") :
        /\ Len(ExprAt(main.body, p).args) = 2
        /\ ExprAt(main.body, p).typ = TNested
        /\ Len(OwnOf(p, "store")) = 6
        /\ NumOf(OwnOf(p, "store")[6].args[1]) = 5

Terminators == {"jmp", "jmpif"}
Instructions ==
    {"const", "allocate", "store", "load", "binary", "not", "cast", "constrain", "call"}

\* block b had been given a terminator when the first n operations were issued
TerminatedBy(b, n) == \E j \in 1..n : Log[j].op \in Terminators /\ Log[j].blk = b

\* C14: whenever codegen_expression returns, for any expression, nested
\* ifs included, the cursor is on a block that has no terminator yet; no
\* instruction is appended to a block that already has a terminator, and no
\* parameter is added to one.
C14_CursorOnOpenBlock ==
    /\ \A r \in 1..Len(world.ret) :
          ~TerminatedBy(world.ret[r].cursor, world.ret[r].at)
    /\ \A i \in 1..Len(Log) :
          /\ Log[i].op \in Instructions => ~TerminatedBy(Log[i].blk, i - 1)
          /\ Log[i].op = "add_param" => ~TerminatedBy(Log[i].tgt[1], i - 1)
    /\ pc = "done" => Blocks[world.cursor].terms = <<>>

\* an if nested in the then-branch of an if with an else has returned, and
\* an instruction was issued after it
C14_Witness ==
    /\ main.body.kind = "Block" /\ <<>> \in Returned
    /\ Len(main.body.args) = 2
    /\ main.body.args[1].kind = "If" /\ Len(main.body.args[1].args) = 3
    /\ main.body.args[1].args[2].kind = "If"
    /\ \E i \in Own(<<2>>) : Log[i].op = "constrain" /\ Log[i].blk = CursorAt(<<1>>)

\* the number of builder operations issued when main's sub-expression at p returned
IssuedAt(p) == world.ret[RetAt(p)].at

\* C15: a constrain expression issues, after its operand's operations,
\* exactly one operation: a constrain instruction on the operand's scalar
\* value, on the block where the operand's translation finished; it creates
\* no block, sets no terminator, leaves the cursor where it was and returns
\* the unit value.
C15_ConstrainFrame ==
    \A p \in ReturnedOf("Constrain") :
        LET own == OwnOps(p)
            operand == p \o <<1>>
        IN /\ Len(own) = 1
           /\ own[1].op = "constrain"
           /\ own[1].args = <<eval(LeafOf(ValueAt(operand)))>>
           /\ own[1].blk = CursorAt(operand)
           /\ IssuedAt(p) = IssuedAt(operand) + 1
           /\ Log[IssuedAt(p)] = own[1]
           /\ CursorAt(p) = CursorAt(operand)
           /\ ValueAt(p) = unit_value

\* a constraint whose operand's translation moved the cursor has been issued
C15_Witness ==
    \E p \in ReturnedOf("Constrain") :
        /\ ExprAt(main.body, p \o <<1>>).kind = "ExtractTupleField"
        /\ ExprAt(main.body, p \o <<1, 1>>).kind = "If"
        /\ \E i \in Below(p \o <<1>>) : Log[i].op = "switch"
        /\ \E i \in Own(p) : Log[i].op = "constrain" /\ Log[i].blk = CursorAt(p)
        /\ CursorAt(p) # world.built[1].entry

\* C16: a block translates its sub-expressions in source order, issues
\* nothing itself and returns the value of the last one, the unit value
\* when it is empty; a Semi translates its sub-expression, issues nothing
\* itself, keeps what the sub-expression issued and returns the unit value.
C16_BlockAndSemi ==
    /\ \A p \in ReturnedOf("Block") :
          LET N == Len(ExprAt(main.body, p).args)
          IN /\ OwnOps(p) = <<>>
             /\ \A i \in 1..N : p \o <<i>> \in Returned
             /\ \A i \in 1..N : \A j \in (i + 1)..N :
                   /\ RetAt(p \o <<i>>) < RetAt(p \o <<j>>)
                   /\ IssuedAt(p \o <<i>>) <= IssuedAt(p \o <<j>>)
                   /\ \A a \in Below(p \o <<i>>) : \A b \in Below(p \o <<j>>) : a < b
             /\ ValueAt(p) = IF N = 0 THEN unit_value ELSE ValueAt(p \o <<N>>)
             /\ N > 0 => /\ IssuedAt(p) = IssuedAt(p \o <<N>>)
                         /\ CursorAt(p) = CursorAt(p \o <<N>>)
    /\ \A p \in ReturnedOf("Semi") :
          /\ OwnOps(p) = <<>>
          /\ p \o <<1>> \in Returned
          /\ ValueAt(p) = unit_value
          /\ IssuedAt(p) = IssuedAt(p \o <<1>>)
          /\ CursorAt(p) = CursorAt(p \o <<1>>)
          /\ \A a \in Below(p \o <<1>>) : a <= IssuedAt(p)

\* a block of a Semi that issued a constant and a field expression has
\* returned the field expression's value
C16_Witness ==
    \E p \in ReturnedOf("Block") :
        LET e == ExprAt(main.body, p)
        IN /\ Len(e.args) = 2
           /\ e.args[1].kind = "Semi"
           /\ Below(p \o <<1>>) # {}
           /\ Below(p \o <<2>>) # {}
           /\ IsLeaf(ValueAt(p))
           /\ ValueAt(p \o <<1>>) = unit_value

====
